---- MODULE Spec2Model ----
(***************************************************************************)
(* Model of picrust2/run_minpath.py: run_minpath_pipeline fans            *)
(* minpath_wrapper out over the samples of a gene family table, each task *)
(* writes the MinPath input, runs MinPath, scans its report and details   *)
(* files and reduces every present pathway to the mean of the upper half  *)
(* of its gene family abundances; the pipeline then removes the temporary *)
(* folder and builds the pathway x sample table.                          *)
(*                                                                         *)
(* Numbers that the code reads as floats (table values, the third token   *)
(* of a details line) are kept in half units: h stands for h/2.  A score  *)
(* (a Python float quotient) is kept as the reduced fraction <<num, den>>. *)
(* Report and details lines keep only the tokens the code indexes.        *)
(***************************************************************************)
EXTENDS Integers, Sequences, FiniteSets, TLC

(* ------------------------------ bounds -------------------------------- *)
NumSamples == 2
PipeFunctions == 1
NumFunctions == 2
MaxReportLen == 2
MaxDetailsLen == 3
MaxTotal == 2

SampleNames == <<"A", "B", "C", "D">>
Pathways == {"P1", "P2"}

SeqsUpTo(S, n) == UNION {[1..k -> S] : k \in 0..n}

(* --------------------------- pure helpers ----------------------------- *)
Abs(x) == IF x < 0 THEN -x ELSE x

RECURSIVE GCD(_, _)
GCD(a, b) == IF b = 0 THEN a ELSE GCD(b, a % b)

\* int(x) of a float x given in half units: truncation toward zero.
IntOf(h) == IF h >= 0 THEN h \div 2 ELSE -((-h) \div 2)

DigitChars == {"0", "1"}
DigitVal(c) == IF c = "1" THEN 1 ELSE 0

\* int(token) raises ValueError unless the token is a digit string.
IsInt(tok) == Len(tok) > 0 /\ \A i \in 1..Len(tok) : tok[i] \in DigitChars

RECURSIVE IntValue(_)
IntValue(tok) ==
    IF tok = <<>> THEN 0
    ELSE 10 * IntValue(SubSeq(tok, 1, Len(tok) - 1)) + DigitVal(tok[Len(tok)])

RECURSIVE Insert(_, _)
Insert(x, s) ==
    IF s = <<>> THEN <<x>>
    ELSE IF x <= Head(s) THEN <<x>> \o s
    ELSE <<Head(s)>> \o Insert(x, Tail(s))

RECURSIVE sorted(_)
sorted(s) == IF s = <<>> THEN <<>> ELSE Insert(Head(s), sorted(Tail(s)))

RECURSIVE sum(_)
sum(s) == IF s = <<>> THEN 0 ELSE Head(s) + sum(Tail(s))

\* The float quotient a / n (n > 0) as a reduced fraction.
Quotient(a, n) == LET g == GCD(Abs(a), n) IN <<a \div g, n \div g>>

Zero == <<0, 1>>

Repeat(x, n) == [i \in 1..n |-> x]

\* range(n) is empty for n <= 0.
RangeLen(n) == IF n > 0 THEN n ELSE 0

(* ------------------------ file line encodings ------------------------- *)
ReportLine(flag, p) == [t7 |-> flag, last |-> p]
PathLine(T, k, p) == [t0 |-> "path", t2 |-> 0, t3 |-> T, t5 |-> k, last |-> p]
FamLine(h) == [t0 |-> "fam", t2 |-> h, t3 |-> 0, t5 |-> 0, last |-> "#"]

NoResult == [set |-> FALSE, val |-> <<>>]
NoMatrix == [columns |-> <<>>, rows |-> {}, cell |-> <<>>]

(* ------------------------------ state --------------------------------- *)
VARIABLES
    samples,          \* biom_in.ids(): the sample ids, in table order
    functions,        \* biom_in.ids(axis="observation"), as 1..n
    biom,             \* table value of (function, sample index), half units
    keep_tmp,         \* the keep_tmp argument
    threads,          \* the threads argument
    solver_exit,      \* exit status MinPath gives for each sample
    solver_report,    \* report file MinPath writes for each sample
    solver_details,   \* details file MinPath writes for each sample
    pipe_pc,          \* position of run_minpath_pipeline
    tmp_exists,       \* the temporary folder is on disk
    raw,              \* sample_path_abun_raw, the list Parallel returns
    matrix,           \* the returned data frame
    pc,               \* position of each minpath_wrapper call
    func_pos,         \* position of the loop over functions
    minpath_in,       \* lines written to <sample>_minpath_in.txt
    solver_calls,     \* number of MinPath invocations per sample
    report_pos,       \* next line of the report file
    path_present,     \* path_present
    details_pos,      \* next line of the details file
    present,          \* present
    current_pathway,  \* current_pathway
    gf_abundances,    \* gf_abundances
    path_abun         \* path_abun

inputs == <<samples, functions, biom, keep_tmp, threads,
            solver_exit, solver_report, solver_details>>
pipe_vars == <<pipe_pc, tmp_exists, matrix>>
task_vars == <<pc, func_pos, minpath_in, solver_calls, report_pos,
               path_present, details_pos, present, current_pathway,
               gf_abundances, path_abun>>
vars == <<inputs, pipe_vars, raw, task_vars>>

Idx == DOMAIN samples

(* ------------------- minpath_wrapper, line by line -------------------- *)
\* Lines 87-93: what one pass of the loop over functions writes.
InputLines(func_id, value) ==
    LET func_count == IntOf(value)
    IN  IF func_count = 0 THEN <<>> ELSE << <<func_id, func_count>> >>

\* picrust2.util.system_call_check: raises on a non-zero exit status.
system_call_check(status) == IF status = 0 THEN "ok" ELSE "raise"

\* A handler that swallows the failure of MinPath.
AfterMinPathSwallowed(outcome) == "report"

\* Lines 105-112: minpath_wrapper has no handler around the call, so a
\* raise ends the task and a normal return goes on to the report file.
AfterMinPath(outcome) == IF outcome = "raise" THEN "error" ELSE "report"

\* A test of the first character of the flag instead of its value.
FlagPresentPrefix(tok) == tok[1] = "1"

\* Line 116.
FlagPresent(tok) == IntValue(tok) = 1

\* Padding by the total count instead of the count of missing families.
ZeroPaddingTotal(line) == Repeat(0, RangeLen(line.t3))

NoPathway == "none"

Put(f, k, v) == [q \in DOMAIN f \cup {k} |-> IF q = k THEN v ELSE f[q]]

\* Lines 152-153.
ZeroPadding(line) == Repeat(0, RangeLen(line.t3 - line.t5))

\* A scanner that forgets to clear present on a pathway that is not present.
ScanDetailsLineSticky(st, line, pp) ==
    IF line.t0 = "path"
    THEN IF line.last \notin pp
         THEN st
         ELSE [present |-> TRUE,
               current |-> line.last,
               gf      |-> Put(st.gf, line.last, ZeroPadding(line))]
    ELSE IF st.present
         THEN [st EXCEPT !.gf[st.current] = Append(@, IntOf(line.t2))]
         ELSE st

\* Lines 136-158: one pass of the loop over the details file, on the
\* scanner state st = [present, current, gf] and the set pp = path_present.
ScanDetailsLine(st, line, pp) ==
    IF line.t0 = "path"
    THEN IF line.last \notin pp
         THEN [st EXCEPT !.present = FALSE]
         ELSE [present |-> TRUE,
               current |-> line.last,
               gf      |-> Put(st.gf, line.last, ZeroPadding(line))]
    ELSE IF st.present
         THEN [st EXCEPT !.gf[st.current] = Append(@, IntOf(line.t2))]
         ELSE st

\* The upper half of the list as read, without sorting it.
PathwayAbunUnsorted(abundances) ==
    LET n == Len(abundances)
        gf_abundances_subset == SubSeq(abundances, n \div 2 + 1, n)
    IN  Quotient(sum(gf_abundances_subset), Len(gf_abundances_subset))

\* Lines 165-167.
PathwayAbun(abundances) ==
    LET sorted_gf_abundances == sorted(abundances)
        n == Len(sorted_gf_abundances)
        gf_abundances_subset == SubSeq(sorted_gf_abundances, n \div 2 + 1, n)
    IN  Quotient(sum(gf_abundances_subset), Len(gf_abundances_subset))

\* A guard that scores an empty list 0 instead of dividing by its length.
AggregateGuarded(gf) ==
    [err |-> FALSE,
     val |-> [p \in DOMAIN gf |->
                IF gf[p] = <<>> THEN Zero ELSE PathwayAbun(gf[p])]]

\* Lines 161-171: the division by len(gf_abundances_subset) raises
\* ZeroDivisionError for an empty list, and the task returns nothing.
Aggregate(gf) ==
    IF \E p \in DOMAIN gf : gf[p] = <<>>
    THEN [err |-> TRUE, val |-> <<>>]
    ELSE [err |-> FALSE, val |-> [p \in DOMAIN gf |-> PathwayAbun(gf[p])]]

(* ------------------------ run_minpath_pipeline ------------------------ *)
\* Results kept in the order in which the tasks finish.
CollectResultAsCompleted(list, i, r) ==
    LET k == 1 + Cardinality({j \in DOMAIN list : list[j].set})
    IN  [list EXCEPT ![k] = [set |-> TRUE, val |-> r]]

\* Lines 42-45: Parallel returns the results in the order of the tasks.
CollectResult(list, i, r) == [list EXCEPT ![i] = [set |-> TRUE, val |-> r]]

\* A join that waits for one task only.
SomeTaskReturned == \E i \in Idx : pc[i] = "done"

\* Lines 42-48: the call to Parallel returns once every task has returned.
AllTasksReturned == \A i \in Idx : pc[i] = "done"

Running == {i \in Idx : pc[i] \notin {"idle", "done", "error"}}

\* Lines 52-63: data frame of the list of dictionaries, indexed by the
\* sample ids, missing values set to 0, transposed.
MakeFrame(list, ids) ==
    LET rows == UNION {DOMAIN list[i].val : i \in DOMAIN list}
        cols == {ids[i] : i \in DOMAIN ids}
    IN  [columns |-> ids,
         rows    |-> rows,
         cell    |-> [rc \in rows \X cols |->
                        LET i == CHOOSE j \in DOMAIN ids : ids[j] = rc[2]
                        IN  IF rc[1] \in DOMAIN list[i].val
                            THEN list[i].val[rc[1]] ELSE Zero]]

(* ------------------------------ actions ------------------------------- *)
\* Parallel hands sample i to a worker; lines 72-82.
StartTask(i) ==
    /\ pipe_pc = "parallel"
    /\ pc[i] = "idle"
    /\ \A j \in Idx : j < i => pc[j] # "idle"
    /\ Cardinality(Running) < threads
    /\ pc' = [pc EXCEPT ![i] = "input"]
    /\ UNCHANGED <<inputs, pipe_vars, raw, func_pos, minpath_in,
                   solver_calls, report_pos, path_present, details_pos,
                   present, current_pathway, gf_abundances, path_abun>>

\* Lines 84-93: one pass of the loop over functions.
WriteInputLine(i) ==
    /\ pc[i] = "input"
    /\ func_pos[i] <= Len(functions)
    /\ minpath_in' = [minpath_in EXCEPT ![i] =
           @ \o InputLines(functions[func_pos[i]],
                           biom[<<functions[func_pos[i]], i>>])]
    /\ func_pos' = [func_pos EXCEPT ![i] = @ + 1]
    /\ UNCHANGED <<inputs, pipe_vars, raw, pc, solver_calls, report_pos,
                   path_present, details_pos, present, current_pathway,
                   gf_abundances, path_abun>>

\* Lines 95-110: close the input, run MinPath, open the report.
RunMinPath(i) ==
    /\ pc[i] = "input"
    /\ func_pos[i] > Len(functions)
    /\ solver_calls' = [solver_calls EXCEPT ![i] = @ + 1]
    /\ pc' = [pc EXCEPT ![i] = AfterMinPath(system_call_check(solver_exit[i]))]
    /\ UNCHANGED <<inputs, pipe_vars, raw, func_pos, minpath_in, report_pos,
                   path_present, details_pos, present, current_pathway,
                   gf_abundances, path_abun>>

\* Lines 113-117: one line of the report.
ReadReportLine(i) ==
    /\ pc[i] = "report"
    /\ report_pos[i] <= Len(solver_report[i])
    /\ LET line == solver_report[i][report_pos[i]]
       IN  IF ~IsInt(line.t7)
           THEN /\ pc' = [pc EXCEPT ![i] = "error"]
                /\ UNCHANGED <<report_pos, path_present>>
           ELSE /\ report_pos' = [report_pos EXCEPT ![i] = @ + 1]
                /\ path_present' = [path_present EXCEPT ![i] =
                       IF FlagPresent(line.t7) THEN @ \cup {line.last} ELSE @]
                /\ UNCHANGED pc
    /\ UNCHANGED <<inputs, pipe_vars, raw, func_pos, minpath_in,
                   solver_calls, details_pos, present, current_pathway,
                   gf_abundances, path_abun>>

\* Lines 119-134: end of the report, open the details file.
OpenDetails(i) ==
    /\ pc[i] = "report"
    /\ report_pos[i] > Len(solver_report[i])
    /\ pc' = [pc EXCEPT ![i] = "details"]
    /\ present' = [present EXCEPT ![i] = FALSE]
    /\ gf_abundances' = [gf_abundances EXCEPT ![i] = <<>>]
    /\ UNCHANGED <<inputs, pipe_vars, raw, func_pos, minpath_in,
                   solver_calls, report_pos, path_present, details_pos,
                   current_pathway, path_abun>>

\* Lines 135-158: one line of the details file.
ReadDetailsLine(i) ==
    /\ pc[i] = "details"
    /\ details_pos[i] <= Len(solver_details[i])
    /\ LET st == ScanDetailsLine([present |-> present[i],
                                  current |-> current_pathway[i],
                                  gf      |-> gf_abundances[i]],
                                 solver_details[i][details_pos[i]],
                                 path_present[i])
       IN  /\ present' = [present EXCEPT ![i] = st.present]
           /\ current_pathway' = [current_pathway EXCEPT ![i] = st.current]
           /\ gf_abundances' = [gf_abundances EXCEPT ![i] = st.gf]
    /\ details_pos' = [details_pos EXCEPT ![i] = @ + 1]
    /\ UNCHANGED <<inputs, pipe_vars, raw, pc, func_pos, minpath_in,
                   solver_calls, report_pos, path_present, path_abun>>

\* Lines 160-171: end of the details file, the scores, the return.
ComputeAbundances(i) ==
    /\ pc[i] = "details"
    /\ details_pos[i] > Len(solver_details[i])
    /\ LET r == Aggregate(gf_abundances[i])
       IN  IF r.err
           THEN /\ pc' = [pc EXCEPT ![i] = "error"]
                /\ UNCHANGED <<path_abun, raw>>
           ELSE /\ pc' = [pc EXCEPT ![i] = "done"]
                /\ path_abun' = [path_abun EXCEPT ![i] = r.val]
                /\ raw' = CollectResult(raw, i, r.val)
    /\ UNCHANGED <<inputs, pipe_vars, func_pos, minpath_in, solver_calls,
                   report_pos, path_present, details_pos, present,
                   current_pathway, gf_abundances>>

\* Lines 42-45: an exception of a task leaves Parallel and the pipeline.
RaiseFromParallel ==
    /\ pipe_pc = "parallel"
    /\ \E i \in Idx : pc[i] = "error"
    /\ pipe_pc' = "raised"
    /\ UNCHANGED <<inputs, tmp_exists, matrix, raw, task_vars>>

\* Lines 47-49: after Parallel has returned.
RemoveTmp ==
    /\ pipe_pc = "parallel"
    /\ AllTasksReturned
    /\ tmp_exists' = keep_tmp
    /\ pipe_pc' = "frame"
    /\ UNCHANGED <<inputs, matrix, raw, task_vars>>

\* Lines 51-63.
ReturnFrame ==
    /\ pipe_pc = "frame"
    /\ matrix' = MakeFrame(raw, samples)
    /\ pipe_pc' = "returned"
    /\ UNCHANGED <<inputs, tmp_exists, raw, task_vars>>

Next ==
    \/ \E i \in Idx : StartTask(i)
    \/ \E i \in Idx : WriteInputLine(i)
    \/ \E i \in Idx : RunMinPath(i)
    \/ \E i \in Idx : ReadReportLine(i)
    \/ \E i \in Idx : OpenDetails(i)
    \/ \E i \in Idx : ReadDetailsLine(i)
    \/ \E i \in Idx : ComputeAbundances(i)
    \/ RaiseFromParallel
    \/ RemoveTmp
    \/ ReturnFrame

(* ------------------------------ inputs -------------------------------- *)
\* remove_empty (line 35) leaves no all-zero row and no all-zero column.
NoEmptyAxis(b, n, nf) ==
    /\ \A f \in 1..nf : \E i \in 1..n : b[<<f, i>>] # 0
    /\ \A i \in 1..n : \E f \in 1..nf : b[<<f, i>>] # 0

\* The state at line 42: n samples, nf functions, table values from vals,
\* MinPath outcomes from outs.
InitWith(n, nf, vals, outs, keeps, thr) ==
    /\ samples = SubSeq(SampleNames, 1, n)
    /\ functions = [f \in 1..nf |-> f]
    /\ biom \in [(1..nf) \X (1..n) -> vals]
    /\ NoEmptyAxis(biom, n, nf)
    /\ keep_tmp \in keeps
    /\ threads \in thr
    /\ \E o \in [1..n -> outs] :
          /\ solver_exit = [i \in 1..n |-> o[i].exit]
          /\ solver_report = [i \in 1..n |-> o[i].report]
          /\ solver_details = [i \in 1..n |-> o[i].details]
    /\ pipe_pc = "parallel"
    /\ tmp_exists = TRUE
    /\ raw = [i \in 1..n |-> NoResult]
    /\ matrix = NoMatrix
    /\ pc = [i \in 1..n |-> "idle"]
    /\ func_pos = [i \in 1..n |-> 1]
    /\ minpath_in = [i \in 1..n |-> <<>>]
    /\ solver_calls = [i \in 1..n |-> 0]
    /\ report_pos = [i \in 1..n |-> 1]
    /\ path_present = [i \in 1..n |-> {}]
    /\ details_pos = [i \in 1..n |-> 1]
    /\ present = [i \in 1..n |-> FALSE]
    /\ current_pathway = [i \in 1..n |-> NoPathway]
    /\ gf_abundances = [i \in 1..n |-> <<>>]
    /\ path_abun = [i \in 1..n |-> <<>>]

Outcome(e, r, d) == [exit |-> e, report |-> r, details |-> d]

\* Exit statuses MinPath may give.
ExitStatuses == {0, 1}

\* MinPath outcomes of the pipeline runs.
PipeOutcomes ==
    { Outcome(1, <<>>, <<>>),
      Outcome(0, <<ReportLine(<<"1">>, "P1")>>,
                 <<PathLine(1, 1, "P1"), FamLine(6)>>),
      Outcome(0, <<ReportLine(<<"1">>, "P2")>>,
                 <<PathLine(2, 1, "P2"), FamLine(2)>>),
      Outcome(0, <<ReportLine(<<"0">>, "P1")>>,
                 <<PathLine(1, 1, "P1"), FamLine(6)>>) }

Init == InitWith(NumSamples, PipeFunctions, {2}, PipeOutcomes,
                 BOOLEAN, 1..NumSamples)

Spec == Init /\ [][Next]_vars

\* Runs of one sample over every table of NumFunctions rows.
TableValues == {-2, 0, 1, 2, 4}

InputOutcomes ==
    { Outcome(e, <<ReportLine(<<"1">>, "P1")>>, d) :
        e \in ExitStatuses,
        d \in {<<PathLine(1, 1, "P1"), FamLine(6)>>, <<PathLine(0, 0, "P1")>>} }

InitInput == InitWith(1, NumFunctions, TableValues, InputOutcomes,
                      BOOLEAN, {1})

SpecInput == InitInput /\ [][Next]_vars

\* Runs of one sample over every report of at most MaxReportLen lines.
FlagTokens == {<<"0">>, <<"1">>, <<"1", "1">>, <<"0", "1">>, <<"x">>}

ReportLines == {ReportLine(t, p) : t \in FlagTokens, p \in Pathways}

ReportOutcomes ==
    { Outcome(e, r, d) :
        e \in ExitStatuses,
        r \in SeqsUpTo(ReportLines, MaxReportLen),
        d \in {<<PathLine(1, 1, "P1"), FamLine(6)>>, <<PathLine(0, 0, "P1")>>} }

InitReport == InitWith(1, PipeFunctions, {2}, ReportOutcomes, {FALSE}, {1})

SpecReport == InitReport /\ [][Next]_vars

\* Runs of one sample over every details file of at most MaxDetailsLen
\* lines.
FamValues == {1, 2, 6}

\* Declared and found counts of the 'path' lines: one family more or less
\* found than declared, or as many.
HeaderCounts ==
    {c \in (0..MaxTotal) \X (0..MaxTotal) : c[1] - c[2] \in {-1, 0, 1}}

DetailsLines ==
    {PathLine(c[1], c[2], "P1") : c \in HeaderCounts}
    \cup {PathLine(MaxTotal, 1, "P2")}
    \cup {FamLine(h) : h \in FamValues}

DetailsReports ==
    { <<ReportLine(<<"1">>, "P1"), ReportLine(<<"0">>, "P2")>>,
      <<ReportLine(<<"1">>, "P1"), ReportLine(<<"1">>, "P2")>> }

DetailsOutcomes ==
    { Outcome(0, r, d) :
        r \in DetailsReports, d \in SeqsUpTo(DetailsLines, MaxDetailsLen) }
    \cup { Outcome(1, <<>>, <<>>) }

InitDetails == InitWith(1, PipeFunctions, {2}, DetailsOutcomes, {FALSE}, {1})

SpecDetails == InitDetails /\ [][Next]_vars

(* ----------------------------- properties ----------------------------- *)
Details(i) == solver_details[i]
Report(i) == solver_report[i]

\* The details lines of sample i read so far.
ReadLines(i) == 1..(details_pos[i] - 1)

IsPath(i, j) == Details(i)[j].t0 = "path"

\* The last 'path' line before line j of the details of sample i, or 0.
HeaderBefore(i, j) ==
    LET H == {h \in 1..(j - 1) : IsPath(i, h)}
    IN  IF H = {} THEN 0 ELSE CHOOSE h \in H : \A g \in H : g <= h

\* Line j is read with the scanner suppressed.
Suppressed(i, j) ==
    LET h == HeaderBefore(i, j)
    IN  h = 0 \/ Details(i)[h].last \notin path_present[i]

\* The 'path' lines read so far that name the present pathway p.
Headers(i, p) ==
    {h \in ReadLines(i) :
        IsPath(i, h) /\ Details(i)[h].last = p /\ p \in path_present[i]}

LastHeader(i, p) == CHOOSE h \in Headers(i, p) : \A g \in Headers(i, p) : g <= h

\* The value lines read so far between 'path' line h and the next one.
Block(i, h) == {j \in ReadLines(i) : j > h /\ ~IsPath(i, j) /\ HeaderBefore(i, j) = h}

Zeros(l) == {x \in 1..Len(l) : l[x] = 0}

DetailsScanned(i) ==
    /\ pc[i] \in {"details", "done", "error"}
    /\ solver_exit[i] = 0
    /\ details_pos[i] > Len(Details(i))

RECURSIVE SumAt(_, _)
SumAt(l, I) ==
    IF I = {} THEN 0
    ELSE LET x == CHOOSE y \in I : TRUE IN l[x] + SumAt(l, I \ {x})

\* C1 as stated: once the details are scanned, the list of every pathway
\* whose header declares T >= k has exactly T entries, T - k of them zero.
C1_AsStated ==
    \A i \in Idx : DetailsScanned(i) =>
        \A p \in DOMAIN gf_abundances[i] :
            LET h == Details(i)[LastHeader(i, p)]
                l == gf_abundances[i][p]
            IN  h.t5 <= h.t3 =>
                    /\ Len(l) = h.t3
                    /\ Cardinality(Zeros(l)) = h.t3 - h.t5

\* C1 (amended): the list of a pathway whose header declares T >= k is
\* T - k zeros followed by the truncated values of the n value lines of its
\* block, so it has (T - k) + n entries; it has exactly T entries, T - k of
\* them zero, when n = k and every value truncates to a non-zero integer.
C1_PaddedList ==
    \A i \in Idx : \A p \in DOMAIN gf_abundances[i] :
        LET j == LastHeader(i, p)
            h == Details(i)[j]
            l == gf_abundances[i][p]
            pad == h.t3 - h.t5
            B == Block(i, j)
            n == Cardinality(B)
        IN  h.t5 <= h.t3 =>
                /\ Len(l) = pad + n
                /\ \A x \in 1..pad : l[x] = 0
                /\ \A x \in 1..n : l[pad + x] = IntOf(Details(i)[j + x].t2)
                /\ (n = h.t5 /\ \A x \in B : IntOf(Details(i)[x].t2) # 0) =>
                       /\ Len(l) = h.t3
                       /\ Cardinality(Zeros(l)) = pad

C1_Witness ==
    \E i \in Idx :
        /\ DetailsScanned(i)
        /\ "P1" \in DOMAIN gf_abundances[i]
        /\ Details(i)[LastHeader(i, "P1")].t3 = 2
        /\ Details(i)[LastHeader(i, "P1")].t5 = 1
        /\ gf_abundances[i]["P1"] = <<0, 3>>

\* C2: the score of a pathway with a list of length L >= 1 is the mean of
\* L - floor(L/2) entries none of which is smaller than an entry left out.
C2_UpperHalfMean ==
    \A i \in Idx : pc[i] = "done" =>
        \A p \in DOMAIN gf_abundances[i] :
            LET l == gf_abundances[i][p]
                L == Len(l)
                m == L - (L \div 2)
            IN  L >= 1 =>
                  /\ p \in DOMAIN path_abun[i]
                  /\ path_abun[i][p][2] > 0
                  /\ \E I \in SUBSET (1..L) :
                        /\ Cardinality(I) = m
                        /\ \A a \in I : \A b \in (1..L) \ I : l[a] >= l[b]
                        /\ path_abun[i][p][1] * m
                             = path_abun[i][p][2] * SumAt(l, I)

C2_Witness ==
    \E i \in Idx :
        /\ pc[i] = "done"
        /\ "P1" \in DOMAIN gf_abundances[i]
        /\ gf_abundances[i]["P1"] = <<0, 3, 1>>
        /\ path_abun[i]["P1"] = <<2, 1>>

\* C3: the present set holds exactly the pathways of the report lines read
\* whose flag has the value 1.
C3_PresentIffFlagOne ==
    \A i \in Idx : \A p \in Pathways :
        p \in path_present[i] <=>
            \E j \in 1..(report_pos[i] - 1) :
                /\ Report(i)[j].last = p
                /\ IsInt(Report(i)[j].t7)
                /\ IntValue(Report(i)[j].t7) = 1

C3_Witness ==
    \E i \in Idx :
        /\ pc[i] = "done"
        /\ Report(i) = <<ReportLine(<<"1">>, "P1"), ReportLine(<<"1", "1">>, "P2")>>
        /\ path_present[i] = {"P1"}

\* C4: a value line read while the last 'path' line names no present
\* pathway (or while there is none) changes no list, and only present
\* pathways with a 'path' line read have a list or a score.
C4_StepSuppressed ==
    \A i \in Idx :
        ( /\ pc[i] = "details"
          /\ details_pos[i] <= Len(Details(i))
          /\ ~IsPath(i, details_pos[i])
          /\ Suppressed(i, details_pos[i]) )
        => gf_abundances'[i] = gf_abundances[i]

C4_KeysActivated ==
    \A i \in Idx :
        /\ \A p \in DOMAIN gf_abundances[i] :
              p \in path_present[i] /\ Headers(i, p) # {}
        /\ DOMAIN path_abun[i] \subseteq DOMAIN gf_abundances[i]
        /\ DOMAIN raw[i].val \subseteq DOMAIN gf_abundances[i]

C4_Scanner == [][C4_StepSuppressed]_vars /\ []C4_KeysActivated

C4_Witness ==
    \E i \in Idx :
        /\ pc[i] = "done"
        /\ DOMAIN path_abun[i] = {"P1"}
        /\ \E j \in ReadLines(i) :
              /\ ~IsPath(i, j)
              /\ Suppressed(i, j)
              /\ HeaderBefore(i, j) # 0
              /\ Headers(i, "P1") # {}
              /\ LastHeader(i, "P1") < j

\* C5 as stated: a task that read the header of a present pathway with a
\* negative padding count returns nothing.
C5_NegativePaddingFails ==
    \A i \in Idx :
        (\E p \in Pathways : \E h \in Headers(i, p) :
            Details(i)[h].t3 - Details(i)[h].t5 < 0)
        => (pc[i] # "done" /\ ~raw[i].set)

\* C6: a task whose scan leaves an empty list ends in an error and returns
\* nothing; no returned score belongs to an empty list.
C6_EmptyListFails ==
    \A i \in Idx :
        /\ (DetailsScanned(i) /\ pc[i] # "details"
              /\ \E p \in DOMAIN gf_abundances[i] : gf_abundances[i][p] = <<>>)
           => (pc[i] = "error" /\ ~raw[i].set /\ path_abun[i] = <<>>)
        /\ \A p \in DOMAIN raw[i].val : gf_abundances[i][p] # <<>>

C6_Witness ==
    \E i \in Idx :
        /\ pc[i] = "error"
        /\ DetailsScanned(i)
        /\ "P1" \in DOMAIN gf_abundances[i]
        /\ gf_abundances[i]["P1"] = <<>>
        /\ Details(i)[LastHeader(i, "P1")].t3 = Details(i)[LastHeader(i, "P1")].t5
        /\ ~raw[i].set

\* C7 as stated: every entry written to the MinPath input has a count > 0,
\* and a task that met a negative count wrote nothing for it and failed.
C7_PositiveCounts ==
    \A i \in Idx :
        /\ \A x \in 1..Len(minpath_in[i]) : minpath_in[i][x][2] > 0
        /\ \A f \in 1..(func_pos[i] - 1) :
              biom[<<functions[f], i>>] < 0 => pc[i] = "error"

\* C8: a sample for which MinPath exits non-zero has MinPath run once, has
\* no report or details line read, and the pipeline returns no table.
C8_SolverFailureAborts ==
    \A i \in Idx : solver_exit[i] # 0 =>
        /\ solver_calls[i] <= 1
        /\ pc[i] \in {"idle", "input", "error"}
        /\ report_pos[i] = 1 /\ details_pos[i] = 1
        /\ path_present[i] = {} /\ gf_abundances[i] = <<>>
        /\ ~raw[i].set
        /\ pipe_pc \in {"parallel", "raised"}
        /\ matrix = NoMatrix

C8_Witness ==
    /\ pipe_pc = "raised"
    /\ \E i \in Idx : solver_exit[i] # 0 /\ pc[i] = "error" /\ solver_calls[i] = 1
    /\ \E j \in Idx : pc[j] = "done" /\ raw[j].set

\* C9: the temporary folder is gone only when every task has returned, and
\* never with keep_tmp.
C9_RemoveAfterJoin ==
    /\ ~tmp_exists => \A i \in Idx : pc[i] = "done"
    /\ keep_tmp => tmp_exists

C9_Witness ==
    /\ ~tmp_exists
    /\ threads >= 2
    /\ Cardinality(Idx) >= 2
    /\ \A i \in Idx : pc[i] = "done" /\ solver_calls[i] = 1

\* C10: the returned table has the samples as columns in table order, the
\* union of the pathways of all results as rows, and in cell (p, s) the
\* score of p in the result of sample s itself, or 0.
C10_TableOfOwnResults ==
    pipe_pc = "returned" =>
        /\ matrix.columns = samples
        /\ matrix.rows = UNION {DOMAIN path_abun[i] : i \in Idx}
        /\ \A i \in Idx : \A p \in matrix.rows :
              matrix.cell[<<p, samples[i]>>] =
                  IF p \in DOMAIN path_abun[i] THEN path_abun[i][p] ELSE Zero

C10_Witness ==
    /\ pipe_pc = "returned"
    /\ threads >= 2
    /\ matrix.rows = {"P1", "P2"}
    /\ matrix.cell[<<"P1", "B">>] = <<3, 1>>
    /\ matrix.cell[<<"P2", "B">>] = Zero
    /\ matrix.cell[<<"P2", "A">>] = <<1, 1>>

====
